---- MODULE Spec2Model ----
(***************************************************************************)
(* Sliding-window rate limiter (src/src/rate_limit.py) and result cache    *)
(* (src/src/cache.py) of the e-commerce API, each with a shared store      *)
(* (Redis) and an in-process fallback.                                     *)
(*                                                                         *)
(* Time is counted in ticks of 1/TicksPerSecond second, so that the        *)
(* float clock of time.time() has a fractional part and int() truncates.   *)
(* Optional values (Python None) are sets: {} is None, {x} is x.           *)
(***************************************************************************)
EXTENDS Integers, Sequences, FiniteSets, TLC

\* ------------------------------------------------------------------ bounds
MaxTime == 3
MaxCalls == 3
MaxWindow == 2
MaxElapsed == 3
MaxTTL == 2
MaxHeader == 3
MaxVersion == 2

\* What the deployment configures: Settings() reads RATE_LIMIT_REQUESTS and
\* RATE_LIMIT_WINDOW_SECONDS from the environment (config.py holds the
\* defaults, 100 requests in 60 seconds).
ConfiguredLimit == 2
ConfiguredWindow == 1

\* The clock's resolution: time.time() is a float of seconds.
TicksPerSecond == 2

\* ---------------------------------------------------------------- settings
settings ==
  [RATE_LIMIT_REQUESTS |-> ConfiguredLimit,
   RATE_LIMIT_WINDOW_SECONDS |-> ConfiguredWindow]

\* ------------------------------------------------------------------ Python
NoneV == {}
Some(x) == {x}
Get(o) == CHOOSE x \in o : TRUE

\* `a or b` on an Optional[int]: None and 0 are falsy.
PyOr(a, b) == IF a = NoneV \/ a = Some(0) THEN b ELSE Get(a)

Max(a, b) == IF a >= b THEN a ELSE b

Ticks(seconds) == seconds * TicksPerSecond

\* int(x) of a non-negative float given in ticks: the whole seconds.
PyInt(ticks) == ticks \div TicksPerSecond

\* The exception classes of redis-py that a network failure raises, and the
\* class hierarchy an except clause matches against.
StoreErrors == {"ConnectionError", "TimeoutError"}

Bases(exc) ==
  CASE exc = "ConnectionError" -> {"ConnectionError", "RedisError", "Exception"}
    [] exc = "TimeoutError" -> {"TimeoutError", "RedisError", "Exception"}
    [] exc = "TypeError" -> {"TypeError", "Exception"}
    [] OTHER -> {"Exception"}

IsInstance(exc, classes) == Bases(exc) \cap classes # {}

\* ---------------------------------------------------------------- requests
Space == " "
Comma == ","

IdA == <<"a">>
IdB == <<"b">>

\* An inbound request: the X-Forwarded-For header (None when absent) and the
\* host of the direct connection (None when request.client is None).
Requests ==
  { [forwarded_for |-> Some(<<"a", Comma, Space, "b">>), host |-> Some(IdB)],
    [forwarded_for |-> NoneV, host |-> Some(IdA)],
    [forwarded_for |-> NoneV, host |-> Some(IdB)] }

\* Every request with a header of MaxHeader characters at most.
HeaderChars == { "a", "b", Comma, Space }
Headers == UNION { [1..n -> HeaderChars] : n \in 0..MaxHeader }
Inbound == [forwarded_for : {NoneV} \cup { Some(h) : h \in Headers },
            host : { NoneV, Some(IdA), Some(IdB) }]

RECURSIVE FirstField(_)
\* s.split(",")[0]
FirstField(s) ==
  IF s = <<>> \/ Head(s) = Comma THEN <<>> ELSE <<Head(s)>> \o FirstField(Tail(s))

RECURSIVE LStrip(_)
LStrip(s) == IF s # <<>> /\ Head(s) = Space THEN LStrip(Tail(s)) ELSE s

RECURSIVE RStrip(_)
RStrip(s) ==
  IF s # <<>> /\ s[Len(s)] = Space THEN RStrip(SubSeq(s, 1, Len(s) - 1)) ELSE s

StripLeft(s) == LStrip(s)

\* s.strip()
Strip(s) == RStrip(LStrip(s))

get_client_identifier(request) ==
  IF request.forwarded_for # NoneV /\ Get(request.forwarded_for) # <<>>
  THEN Strip(FirstField(Get(request.forwarded_for)))
  ELSE IF request.host # NoneV THEN Get(request.host)
       ELSE <<"u", "n", "k", "n", "o", "w", "n">>

Identities == { get_client_identifier(r) : r \in Requests }

\* What a direct caller passes for limit and window_seconds (the dependency
\* passes neither): no requests at all, one, or as many as configured, in
\* the configured window or in the longest one.
LimitArgs == { Some(0), Some(1), Some(ConfiguredLimit) }
WindowArgs == { Some(ConfiguredWindow), Some(MaxWindow) }

\* The identity the direct calls are made for.
Callers == { IdA }

\* -------------------------------------------------------------- cache data
Colon == ":"
Star == "*"

\* Cache keys and the patterns invalidate_cache is called with, as sequences
\* of tokens.
Listing1 == <<"listing", Colon, "1">>
Listing10 == <<"listing", Colon, "1", "0">>
Listing2 == <<"listing", Colon, "2">>
User1 == <<"user", Colon, "1">>

\* The keys the route handlers and the tests use.
Listed == { Listing1, Listing10, Listing2, User1 }

\* @cached(ttl_seconds=..., key_prefix="test") on expensive_function, with a
\* time to live of one second.
decorator == [ttl_seconds |-> 1, key_prefix |-> "test"]
func == [__name__ |-> "expensive_function"]

\* What the wrapped operation is called with: positional arguments, and
\* keyword arguments as (name, value) pairs in the order they were passed.
ArgsPassed == { <<1>>, <<2>> }
KwargsPassed ==
  { <<>>, << <<"x", 1>> >>, << <<"x", 1>>, <<"y", 1>> >>, << <<"y", 1>>, <<"x", 1>> >> }

\* ord(c) of the names' characters, which is how Python orders them.
ord == [x |-> 120, y |-> 121]

\* str(v) of a small int
str(v) == <<"0", "1", "2", "3", "4", "5", "6", "7", "8", "9">>[v + 1]

Equals == "="

\* (k1, v1) < (k2, v2) for the items of a dict: the names differ.
ItemLess(item, other) == ord[item[1]] < ord[other[1]]

RECURSIVE Insert(_, _)
Insert(item, items) ==
  IF items = <<>> \/ ItemLess(item, Head(items)) THEN <<item>> \o items
  ELSE <<Head(items)>> \o Insert(item, Tail(items))

Unsorted(items) == items

RECURSIVE sorted(_)
\* sorted(kwargs.items())
sorted(items) ==
  IF items = <<>> THEN <<>> ELSE Insert(Head(items), sorted(Tail(items)))

RECURSIVE Join(_, _)
\* sep.join(parts)
Join(sep, parts) ==
  IF parts = <<>> THEN <<>>
  ELSE IF Len(parts) = 1 THEN Head(parts)
  ELSE Head(parts) \o <<sep>> \o Join(sep, Tail(parts))

\* The wrapper's cache_key for a call with these keyword arguments.
cache_key(kwargs) ==
  LET base == <<decorator.key_prefix, Colon, func.__name__>>
      sorted_kwargs == sorted(kwargs)
  IN IF kwargs # <<>>
     THEN base \o <<Colon>>
          \o Join(Colon, [i \in 1..Len(sorted_kwargs) |->
                            <<sorted_kwargs[i][1], Equals, str(sorted_kwargs[i][2])>>])
     ELSE base

WrapperKeys == { cache_key(kwargs) : kwargs \in KwargsPassed }

CacheKeys == Listed \cup WrapperKeys
Patterns == { Listing1, <<"listing", Colon, Star>> }

\* The key the cache operations are made on.
Cached == { Listing1 }

\* Python values handed to set_cache.
PyList(items) == [type |-> "list", items |-> items]
PyTuple(items) == [type |-> "tuple", items |-> items]
PySet(items) == [type |-> "set", items |-> items]
PyDict(items) == [type |-> "dict", items |-> items]
PyNone == [type |-> "NoneType", items |-> <<>>]

\* An instance of a Pydantic model, and its model_dump(mode='json').
PyModel(items) == [type |-> "model", items |-> items]
model_dump(result) == PyDict(result.items)

\* What the wrapped operation returns.
Results == { PyDict(<<1>>), PyNone, PyModel(<<1>>) }
CacheValues == { PyList(<<1>>), PyTuple(<<1>>), PySet(<<1>>) }

\* ttl_seconds: one second, the longest.
TTLs == { 1, MaxTTL }

\* json.dumps(value): lists and tuples both become a JSON array, a dict an
\* object and None null; a set or a model instance is not serializable.
json_dumps(value) ==
  IF value.type \in {"list", "tuple"}
  THEN [raised |-> "None", text |-> Some([json |-> "array", items |-> value.items])]
  ELSE IF value.type = "dict"
  THEN [raised |-> "None", text |-> Some([json |-> "object", items |-> value.items])]
  ELSE IF value.type = "NoneType"
  THEN [raised |-> "None", text |-> Some([json |-> "null", items |-> <<>>])]
  ELSE [raised |-> "TypeError", text |-> NoneV]

\* json.loads(text): a JSON array becomes a list, an object a dict, null None.
json_loads(text) ==
  IF text.json = "array" THEN PyList(text.items)
  ELSE IF text.json = "object" THEN PyDict(text.items)
  ELSE PyNone

Unprefixed(key) == key

\* f"cache:{key}"
CacheKey(key) == <<"cache", Colon>> \o key

\* f"rate_limit:{client_id}"
RateLimitKey(client_id) == <<"rate_limit", Colon>> \o client_id

RECURSIVE GlobMatch(_, _)
\* The shared store's KEYS pattern match; * matches any run of tokens.
GlobMatch(pattern, s) ==
  IF pattern = <<>> THEN s = <<>>
  ELSE IF Head(pattern) = Star
       THEN GlobMatch(Tail(pattern), s) \/ (s # <<>> /\ GlobMatch(pattern, Tail(s)))
       ELSE s # <<>> /\ Head(s) = Head(pattern) /\ GlobMatch(Tail(pattern), Tail(s))

ReplaceNothing(pattern) == pattern

\* pattern.replace("*", "")
Replace(pattern) == SelectSeq(pattern, LAMBDA c : c # Star)

\* sub in s
Contains(sub, s) ==
  \E i \in 0..(Len(s) - Len(sub)) : SubSeq(s, i + 1, i + Len(sub)) = sub

VARIABLES
  now,               \* the wall clock, in ticks
  redis_reachable,   \* whether the shared store answers
  rl_redis_client,   \* rate_limit._redis_client
  memory_storage,    \* rate_limit._memory_storage
  zsets,             \* the shared store's sorted sets, rate_limit:<identity>
  calls,             \* how many checks, or calls of the wrapper, were made
  last,              \* per identity, when its last check was and how it ended
  hist,              \* per identity, what its check calls returned so far
  cache_redis_client, \* cache._redis_client
  redis_cache,       \* the shared store's strings, cache:<key>, with expiry
  memory_cache,      \* cache._memory_cache
  last_set,          \* per key, the last set_cache since which nothing else
                     \* wrote the key and the shared store stayed as it was
  last_invalidate,   \* the pattern of the last invalidate_cache, while no
                     \* set_cache followed it
  wrapper_pc,        \* the call of the wrapper that awaits the operation
  memo,              \* per wrapper key, the last result the wrapper stored
  db,                \* the listings table: the row of listing 1, if any
  handlers,          \* where the route handlers of listing 1 stand
  in_flight,         \* per worker, its check call on the shared store
  tasks,             \* per logical request of one process, where its call
                     \* on the in-process store stands
  running,           \* the request whose code the event loop is running
  res                \* what the last operation returned

rl_vars == <<rl_redis_client, memory_storage, zsets, calls, last, hist>>

cache_vars ==
  <<cache_redis_client, redis_cache, memory_cache, last_set, last_invalidate>>

wrapper_vars == <<wrapper_pc, memo>>

conc_vars == <<db, handlers, in_flight, tasks, running>>

vars ==
  <<now, redis_reachable, rl_vars, cache_vars, wrapper_vars, conc_vars, res>>

\* ------------------------------------------------------------ shared store
ZRemRangeByScoreBelowMax(members, min, max) ==
  { e \in members : ~(min <= e.score /\ e.score < max) }

\* ZREMRANGEBYSCORE key min max: both ends inclusive.
ZRemRangeByScore(members, min, max) ==
  { e \in members : ~(min <= e.score /\ e.score <= max) }

ZCard(members) == Cardinality(members)

\* str(current_time): distinct floats print differently, equal floats alike.
Str(t) == <<"str", t>>

\* ZADD key {member: score}: a member already in the set keeps one entry.
ZAdd(members, member, score) ==
  { e \in members : e.member # member } \cup { [member |-> member, score |-> score] }

\* The key as the store sees it at time t: gone once its expiry has passed.
Live(zset, t) ==
  IF zset.expire_at # NoneV /\ Get(zset.expire_at) <= t
  THEN [members |-> {}, expire_at |-> NoneV]
  ELSE zset

\* pipe.zremrangebyscore; pipe.zcard; pipe.zadd; pipe.expire; pipe.execute()
Pipeline(zset, current_time, window_start, window_seconds) ==
  LET z0 == Live(zset, current_time).members
      z1 == ZRemRangeByScore(z0, 0, window_start)
      z2 == ZAdd(z1, Str(current_time), current_time)
  IN [zset |-> [members |-> z2,
                expire_at |-> Some(current_time + Ticks(window_seconds))],
      results |-> <<Cardinality(z0) - Cardinality(z1), ZCard(z1),
                    Cardinality(z2) - Cardinality(z1), 1>>]

\* -------------------------------------------------------- get_redis_client
\* except (redis.ConnectionError, redis.TimeoutError)
ProbeCaught(exc) == IsInstance(exc, {"ConnectionError", "TimeoutError"})

NeverProbes(client, exc) == [client |-> client, raised |-> "None"]

\* exc is what from_url + ping meet: "None" when the store answers.
get_redis_client(client, exc) ==
  IF client = "None"
  THEN IF exc = "None" THEN [client |-> "client", raised |-> "None"]
       ELSE IF ProbeCaught(exc) THEN [client |-> "None", raised |-> "None"]
       ELSE [client |-> "client", raised |-> exc]
  ELSE [client |-> client, raised |-> "None"]

\* ------------------------------------------------------ _memory_rate_limit
KeptOnlyAfterWindowStart(t, window_start) == t >= window_start

\* the list comprehension's filter: t > window_start
Kept(t, window_start) == t > window_start

Clean(list, window_start) == SelectSeq(list, LAMBDA t : Kept(t, window_start))

ResetTime(current_time, window_seconds) ==
  PyInt(current_time + Ticks(window_seconds))

_memory_rate_limit(list, limit, window_seconds, current_time) ==
  LET window_start == current_time - Ticks(window_seconds)
      cleaned == Clean(list, window_start)
      request_count == Len(cleaned)
      reset_time == ResetTime(current_time, window_seconds)
  IN IF request_count < limit
     THEN [storage |-> Append(cleaned, current_time),
           result |-> [is_allowed |-> TRUE, remaining |-> limit - request_count - 1,
                       limit |-> limit, reset_time |-> reset_time]]
     ELSE [storage |-> cleaned,
           result |-> [is_allowed |-> FALSE, remaining |-> 0,
                       limit |-> limit, reset_time |-> reset_time]]

\* ----------------------------------------------- sliding_window_rate_limit
PipelineCaughtConnectionOnly(exc) == IsInstance(exc, {"ConnectionError"})

\* except redis.RedisError
PipelineCaught(exc) == IsInstance(exc, {"RedisError"})

\* One call, as a function of the state it reads. exc is what the shared
\* store answers to this call: "None", or the error its socket raises.
sliding_window_rate_limit(client_id, limit_arg, window_arg, current_time, exc) ==
  LET limit == PyOr(limit_arg, settings.RATE_LIMIT_REQUESTS)
      window_seconds == PyOr(window_arg, settings.RATE_LIMIT_WINDOW_SECONDS)
      window_start == current_time - Ticks(window_seconds)
      probe == get_redis_client(rl_redis_client, exc)
      memory == _memory_rate_limit(memory_storage[client_id], limit,
                                   window_seconds, current_time)
      fallback == [client |-> probe.client, raised |-> "None",
                   result |-> Some(memory.result), backend |-> "memory",
                   zset |-> zsets[client_id], storage |-> memory.storage]
      failed(e) == [client |-> probe.client, raised |-> e, result |-> NoneV,
                    backend |-> "none", zset |-> zsets[client_id],
                    storage |-> memory_storage[client_id]]
  IN IF probe.raised # "None" THEN failed(probe.raised)
     ELSE IF probe.client # "None"
     THEN IF exc = "None"
          THEN LET pipe == Pipeline(zsets[client_id], current_time,
                                    window_start, window_seconds)
                   request_count == pipe.results[2]
               IN [client |-> probe.client, raised |-> "None",
                   result |-> Some([is_allowed |-> request_count < limit,
                                    remaining |-> Max(0, limit - request_count - 1),
                                    limit |-> limit,
                                    reset_time |-> ResetTime(current_time,
                                                             window_seconds)]),
                   backend |-> "redis", zset |-> pipe.zset,
                   storage |-> memory_storage[client_id]]
          ELSE IF PipelineCaught(exc) THEN fallback ELSE failed(exc)
     ELSE fallback

\* ------------------------------------------------------------ observations
\* When an identity's last check was, and whether it left the identity with
\* nothing to spend: it was denied, or it was admitted with remaining = 0.
NoLast == [at |-> NoneV, exhausted |-> FALSE]

Ended(l, current_time, out) ==
  IF out.result = NoneV THEN l
  ELSE [at |-> Some(current_time),
        exhausted |-> ~Get(out.result).is_allowed \/ Get(out.result).remaining = 0]

\* What a caller can tell about one identity's calls so far: how many, with
\* which arguments, served by which store, and what the admitted ones got.
NoHist ==
  [n |-> 0, lims |-> {}, wins |-> {}, backends |-> {}, first |-> NoneV,
   admits |-> <<>>, rems |-> <<>>, denied |-> NoneV]

\* The record is kept while every call of the identity had the same
\* arguments; after that only the count is.
SameArguments(h) == Cardinality(h.lims) = 1 /\ Cardinality(h.wins) = 1

\* Every call had the same arguments and was served by the same store.
Uniform(h) == SameArguments(h) /\ Cardinality(h.backends) = 1

Recorded(h, limit_arg, window_arg, current_time, out) ==
  IF out.result = NoneV THEN h
  ELSE LET r == Get(out.result)
           full == [n |-> h.n + 1,
                    lims |-> h.lims \cup {limit_arg},
                    wins |-> h.wins \cup {window_arg},
                    backends |-> h.backends \cup {out.backend},
                    first |-> IF h.first = NoneV THEN Some(current_time)
                              ELSE h.first,
                    admits |-> IF r.is_allowed THEN Append(h.admits, current_time)
                               ELSE h.admits,
                    rems |-> IF r.is_allowed THEN Append(h.rems, r.remaining)
                             ELSE h.rems,
                    denied |-> IF r.is_allowed THEN NoneV
                               ELSE Some([at |-> current_time,
                                          reset_time |-> r.reset_time])]
       IN IF SameArguments(full) THEN full
          ELSE [full EXCEPT !.lims = LimitArgs, !.wins = WindowArgs,
                            !.backends = {"redis", "memory"},
                            !.first = NoneV, !.admits = <<>>, !.rems = <<>>,
                            !.denied = NoneV]

\* The timestamps a store holds for an identity, as a bag of its entries.
MemoryStamps(list) == { <<i, list[i]>> : i \in DOMAIN list }
RedisStamps(zset, t) == { <<e.member, e.score>> : e \in Live(zset, t).members }

InWindow(stamps, current_time, window_seconds) ==
  Cardinality({ s \in stamps : s[2] > current_time - Ticks(window_seconds) })

StoreAnswers == IF redis_reachable THEN {"None"} ELSE StoreErrors

Observed(op, client_id, limit_arg, window_arg, out, exc, raised, error, handler_ran) ==
  LET window_seconds == PyOr(window_arg, settings.RATE_LIMIT_WINDOW_SECONDS)
      before == IF out.backend = "redis" THEN RedisStamps(zsets[client_id], now)
                ELSE MemoryStamps(memory_storage[client_id])
      after == IF out.backend = "redis" THEN RedisStamps(out.zset, now)
               ELSE MemoryStamps(out.storage)
  IN [op |-> op, id |-> client_id, limit_arg |-> limit_arg,
      window_arg |-> window_arg, at |-> now, raised |-> raised,
      result |-> out.result, backend |-> out.backend, store_error |-> exc,
      client_before |-> rl_redis_client,
      seen_before |-> InWindow(before, now, window_seconds),
      mem_before |-> InWindow(MemoryStamps(memory_storage[client_id]), now,
                              window_seconds),
      size_after |-> Cardinality(after),
      stamps_before |-> { e[2] : e \in before },
      stamps_after |-> { e[2] : e \in after },
      list_after |-> out.storage,
      unexpired_before |->
        InWindow({ <<e.member, e.score>> : e \in zsets[client_id].members }, now,
                 window_seconds),
      prev |-> last[client_id],
      prev_denied |-> hist[client_id].denied,
      error |-> error, handler_ran |-> handler_ran]

\* ------------------------------------------------------------------- cache
\* get_redis_client of cache.py; exc is what from_url + ping meet.
cache_get_redis_client(client, exc) ==
  IF client = "None"
  THEN IF exc = "None" THEN [client |-> "client", raised |-> "None"]
       ELSE IF IsInstance(exc, {"ConnectionError", "TimeoutError"})
            THEN [client |-> "None", raised |-> "None"]
            ELSE [client |-> "client", raised |-> exc]
  ELSE [client |-> client, raised |-> "None"]

\* The strings the shared store still holds at time t: it drops a key when
\* the key's time to live is over.
LiveCache(strings, t) ==
  [k \in DOMAIN strings |->
     IF strings[k] # NoneV /\ Get(strings[k]).expire_at <= t THEN NoneV
     ELSE strings[k]]

CacheCaughtConnectionOnly(exc) == IsInstance(exc, {"ConnectionError"})

\* except redis.RedisError, in get_cache, set_cache and invalidate_cache
CacheCaught(exc) == IsInstance(exc, {"RedisError"})

\* What a cache operation leaves: the client, what it raised, what it
\* returned, and the two stores.
CacheOut(client, raised, returned, wrote, strings, memory) ==
  [client |-> client, raised |-> raised, returned |-> returned, wrote |-> wrote,
   redis |-> strings, memory |-> memory]

set_cache(key, value, ttl_seconds, current_time, exc) ==
  LET probe == cache_get_redis_client(cache_redis_client, exc)
      strings == LiveCache(redis_cache, current_time)
      dumped == json_dumps(value)
      failed(e) == CacheOut(probe.client, e, NoneV, "none", redis_cache, memory_cache)
      fallback ==
        CacheOut(probe.client, "None", Some(TRUE), "memory", redis_cache,
                 [memory_cache EXCEPT
                    ![key] = Some([value |-> value,
                                   expires_at |-> current_time + Ticks(ttl_seconds)])])
  IN IF probe.raised # "None" THEN failed(probe.raised)
     ELSE IF probe.client # "None"
     THEN IF dumped.raised # "None" THEN failed(dumped.raised)
          ELSE IF exc = "None"
          THEN CacheOut(probe.client, "None", Some(TRUE), "redis",
                        [strings EXCEPT
                           ![key] = Some([value |-> Get(dumped.text),
                                          expire_at |-> current_time
                                                        + Ticks(ttl_seconds)])],
                        memory_cache)
          ELSE IF CacheCaught(exc) THEN fallback ELSE failed(exc)
     ELSE fallback

get_cache(key, current_time, exc) ==
  LET probe == cache_get_redis_client(cache_redis_client, exc)
      strings == LiveCache(redis_cache, current_time)
      failed(e) == CacheOut(probe.client, e, NoneV, "none", redis_cache, memory_cache)
      fallback ==
        IF memory_cache[key] # NoneV
        THEN IF current_time < Get(memory_cache[key]).expires_at
             THEN CacheOut(probe.client, "None", Some(Get(memory_cache[key]).value),
                           "none", redis_cache, memory_cache)
             ELSE CacheOut(probe.client, "None", NoneV, "memory", redis_cache,
                           [memory_cache EXCEPT ![key] = NoneV])
        ELSE CacheOut(probe.client, "None", NoneV, "none", redis_cache, memory_cache)
  IN IF probe.raised # "None" THEN failed(probe.raised)
     ELSE IF probe.client # "None"
     THEN IF exc = "None"
          THEN IF strings[key] # NoneV
               THEN CacheOut(probe.client, "None",
                             Some(json_loads(Get(strings[key]).value)), "none",
                             strings, memory_cache)
               ELSE [fallback EXCEPT !.redis = strings]
          ELSE IF CacheCaught(exc) THEN fallback ELSE failed(exc)
     ELSE fallback

\* The sorted sets among redis_client.keys(f"cache:{pattern}"): the store
\* keeps the limiter's records and the cache's strings in one key space.
limit_keys(pattern, current_time) ==
  { i \in Identities :
      /\ Live(zsets[i], current_time).members # {}
      /\ GlobMatch(CacheKey(pattern), RateLimitKey(i)) }

invalidate_cache(pattern, current_time, exc) ==
  LET probe == cache_get_redis_client(cache_redis_client, exc)
      strings == LiveCache(redis_cache, current_time)
      keys == { k \in CacheKeys :
                  strings[k] # NoneV /\ GlobMatch(CacheKey(pattern), CacheKey(k)) }
      keys_to_delete == { k \in CacheKeys :
                            memory_cache[k] # NoneV /\ Contains(Replace(pattern), k) }
      cleaned == [k \in CacheKeys |->
                    IF k \in keys_to_delete THEN NoneV ELSE memory_cache[k]]
  IN IF probe.raised # "None"
     THEN CacheOut(probe.client, probe.raised, NoneV, "none", redis_cache, memory_cache)
     ELSE IF probe.client # "None" /\ exc = "None"
     THEN CacheOut(probe.client, "None",
                   Some(Cardinality(keys)
                        + Cardinality(limit_keys(pattern, current_time))
                        + Cardinality(keys_to_delete)), "redis",
                   [k \in CacheKeys |-> IF k \in keys THEN NoneV ELSE strings[k]],
                   cleaned)
     ELSE IF probe.client # "None" /\ ~CacheCaught(exc)
     THEN CacheOut(probe.client, exc, NoneV, "none", redis_cache, memory_cache)
     ELSE CacheOut(probe.client, "None", Some(Cardinality(keys_to_delete)),
                   "memory", redis_cache, cleaned)

\* No set_cache is remembered for any key.
NoSets == [k \in CacheKeys |-> NoneV]

\* What a cache operation returned, with what it was called on and what it
\* left of the key in each store.
CacheObserved(op, key, value, ttl_seconds, out, exc) ==
  [op |-> op, key |-> key, value |-> value, ttl |-> ttl_seconds, at |-> now,
   raised |-> out.raised, returned |-> out.returned, wrote |-> out.wrote,
   store_error |-> exc, client_before |-> cache_redis_client,
   memory_changed |-> out.memory # memory_cache,
   memory_entry |-> IF key \in CacheKeys THEN out.memory[key] ELSE NoneV,
   redis_entry |-> IF key \in CacheKeys THEN out.redis[key] ELSE NoneV,
   last |-> IF key \in CacheKeys THEN last_set[key] ELSE NoneV,
   memory_before |-> IF key \in CacheKeys THEN memory_cache[key] ELSE NoneV,
   redis_removed |-> { k \in CacheKeys :
                         LiveCache(redis_cache, now)[k] # NoneV /\ out.redis[k] = NoneV },
   memory_removed |-> { k \in CacheKeys :
                          memory_cache[k] # NoneV /\ out.memory[k] = NoneV },
   others_kept |-> \A k \in CacheKeys :
                     /\ out.redis[k] \in {NoneV, LiveCache(redis_cache, now)[k]}
                     /\ out.memory[k] \in {NoneV, memory_cache[k]},
   redis_held |-> { k \in CacheKeys : LiveCache(redis_cache, now)[k] # NoneV },
   memory_held |-> { k \in CacheKeys : memory_cache[k] # NoneV },
   after |-> last_invalidate]

\* ----------------------------------------------------------------- actions
\* A row of the listings table, as the ORM object of its n-th version.
Listing(n) == PyModel(<<n>>)

\* The worker processes that check one identity against the shared store.
Workers == 1..MaxCalls

\* A worker that has not called sliding_window_rate_limit.
NoCall ==
  [at |-> "idle", current_time |-> NoneV, executed |-> NoneV, nth |-> NoneV,
   is_allowed |-> NoneV]

\* The logical requests of one process.
Tasks == { "t1", "t2" }

\* A request that is in none of the calls; done: it has returned from one.
IdleTask(done) ==
  [pc |-> "idle", current_time |-> NoneV, entry |-> NoneV, local |-> NoneV,
   done |-> done]

\* No handler of listing 1 is running.
NoHandlers ==
  [get_listing |-> [at |-> "idle", listing |-> NoneV], writer |-> "idle"]

\* No operation has just returned.
Idle == [op |-> "idle"]

Init ==
  /\ now = 0
  /\ redis_reachable \in BOOLEAN
  /\ rl_redis_client = "None"
  /\ memory_storage = [i \in Identities |-> <<>>]
  /\ zsets = [i \in Identities |-> [members |-> {}, expire_at |-> NoneV]]
  /\ calls = 0
  /\ last = [i \in Identities |-> NoLast]
  /\ hist = [i \in Identities |-> NoHist]
  /\ cache_redis_client = "None"
  /\ redis_cache = [k \in CacheKeys |-> NoneV]
  /\ memory_cache = [k \in CacheKeys |-> NoneV]
  /\ last_set = NoSets
  /\ last_invalidate = NoneV
  /\ wrapper_pc = NoneV
  /\ memo = [k \in WrapperKeys |-> NoneV]
  /\ db = Some(Listing(1))
  /\ handlers = NoHandlers
  /\ in_flight = [w \in Workers |-> NoCall]
  /\ tasks = [t \in Tasks |-> IdleTask(FALSE)]
  /\ running = NoneV
  /\ res = Idle

\* The state after construction where the shared store answers, and where it
\* does not.
InitReachable == Init /\ redis_reachable = TRUE

InitUnreachable == Init /\ redis_reachable = FALSE

Tick ==
  /\ now < MaxTime
  /\ now' = now + 1
  /\ res' = Idle
  /\ UNCHANGED <<conc_vars, redis_reachable, rl_vars, cache_vars, wrapper_vars>>

RedisFails ==
  /\ redis_reachable
  /\ redis_reachable' = FALSE
  /\ last_set' = NoSets
  /\ res' = Idle
  /\ UNCHANGED <<conc_vars, now, rl_vars, cache_redis_client, redis_cache, memory_cache,
                 last_invalidate, wrapper_vars>>

RedisRecovers ==
  /\ ~redis_reachable
  /\ redis_reachable' = TRUE
  /\ last_set' = NoSets
  /\ res' = Idle
  /\ UNCHANGED <<conc_vars, now, rl_vars, cache_redis_client, redis_cache, memory_cache,
                 last_invalidate, wrapper_vars>>

\* What one call leaves behind. With track, the call is also entered in the
\* identity's record of calls, which holds MaxCalls calls at most.
Applied(client_id, limit_arg, window_arg, out, track) ==
  /\ rl_redis_client' = out.client
  /\ memory_storage' = [memory_storage EXCEPT ![client_id] = out.storage]
  /\ zsets' = [zsets EXCEPT ![client_id] = out.zset]
  /\ last' = [last EXCEPT ![client_id] = Ended(@, now, out)]
  /\ calls' = IF track THEN calls + 1 ELSE calls
  /\ hist' = IF track
             THEN [hist EXCEPT
                    ![client_id] = Recorded(@, limit_arg, window_arg, now, out)]
             ELSE hist

\* A direct call of sliding_window_rate_limit.
Check(client_id, limit_arg, window_arg, track) ==
  /\ track => calls < MaxCalls
  /\ \E exc \in StoreAnswers :
       LET out == sliding_window_rate_limit(client_id, limit_arg, window_arg,
                                            now, exc)
       IN /\ Applied(client_id, limit_arg, window_arg, out, track)
          /\ res' = Observed("check", client_id, limit_arg, window_arg, out, exc,
                             out.raised, NoneV, FALSE)
  /\ UNCHANGED <<conc_vars, now, redis_reachable, cache_vars, wrapper_vars>>

\* One call of a sequence that is made twice over, from empty records: once
\* with the shared store answering every call, which leaves its record in the
\* sorted set, and once with the shared store failing every call, which
\* leaves its record in the in-process list.
CheckBoth(client_id, limit_arg, window_arg) ==
  LET shared == sliding_window_rate_limit(client_id, limit_arg, window_arg,
                                          now, "None")
      fallback == sliding_window_rate_limit(client_id, limit_arg, window_arg,
                                            now, "ConnectionError")
  IN /\ rl_redis_client' = shared.client
     /\ zsets' = [zsets EXCEPT ![client_id] = shared.zset]
     /\ memory_storage' = [memory_storage EXCEPT ![client_id] = fallback.storage]
     /\ last' = [last EXCEPT ![client_id] = Ended(@, now, shared)]
     /\ res' = [op |-> "both", id |-> client_id, limit_arg |-> limit_arg,
                window_arg |-> window_arg, at |-> now, prev |-> last[client_id],
                shared |-> shared.result, shared_backend |-> shared.backend,
                fallback |-> fallback.result,
                fallback_backend |-> fallback.backend]
     /\ UNCHANGED <<conc_vars, now, redis_reachable, calls, hist, cache_vars, wrapper_vars>>

\* -------------------------------------------------- rate_limit_dependency
\* RateLimitError(retry_after), as APIException builds it.
RateLimitError(retry_after) ==
  [status_code |-> 429, error_code |-> "RATE_LIMIT_EXCEEDED",
   message |-> "Too many requests", details |-> [retry_after |-> retry_after]]

\* if not is_allowed:
Raises(result) == ~result.is_allowed

\* reset_time - int(time.time()), with the clock as it stands at the raise
RetryAfter(reset_time, clock) == reset_time - PyInt(clock)

\* One request to a router that depends on rate_limit_dependency: the
\* dependency runs first and the route's handler runs when it raised nothing.
\* The dependency reads the clock again when it raises; elapsed is the time
\* that has passed since sliding_window_rate_limit read it.
Request(request) ==
  /\ now <= MaxTime
  /\ \E exc \in StoreAnswers :
       LET client_id == get_client_identifier(request)
           out == sliding_window_rate_limit(client_id, NoneV, NoneV, now, exc)
       IN /\ Applied(client_id, NoneV, NoneV, out, FALSE)
          /\ IF out.raised # "None"
             THEN /\ now' = now
                  /\ res' = Observed("request", client_id, NoneV, NoneV, out, exc,
                                     out.raised, NoneV, FALSE)
             ELSE IF Raises(Get(out.result))
             THEN \E elapsed \in 0..MaxElapsed :
                    /\ now' = now + elapsed
                    /\ res' = Observed("request", client_id, NoneV, NoneV, out, exc,
                                       "RateLimitError",
                                       Some(RateLimitError(
                                         RetryAfter(Get(out.result).reset_time,
                                                    now + elapsed))),
                                       FALSE)
             ELSE /\ now' = now
                  /\ res' = Observed("request", client_id, NoneV, NoneV, out, exc,
                                     "None", NoneV, TRUE)
  /\ UNCHANGED <<conc_vars, redis_reachable, cache_vars, wrapper_vars>>

\* ----------------------------------------------------------- cache actions
CacheApplied(out) ==
  /\ cache_redis_client' = out.client
  /\ redis_cache' = out.redis
  /\ memory_cache' = out.memory

SetCacheCall(key, value, ttl_seconds) ==
  /\ \E exc \in StoreAnswers :
       LET out == set_cache(key, value, ttl_seconds, now, exc)
       IN /\ CacheApplied(out)
          /\ last_set' = IF out.raised = "None"
                         THEN [last_set EXCEPT
                                 ![key] = Some([value |-> value, at |-> now,
                                                ttl |-> ttl_seconds])]
                         ELSE last_set
          /\ last_invalidate' = IF out.raised = "None" THEN NoneV
                                ELSE last_invalidate
          /\ res' = CacheObserved("set", key, Some(value), Some(ttl_seconds), out, exc)
  /\ UNCHANGED <<now, redis_reachable, rl_vars, wrapper_vars>>

GetCacheCall(key) ==
  /\ \E exc \in StoreAnswers :
       LET out == get_cache(key, now, exc)
       IN /\ CacheApplied(out)
          /\ res' = CacheObserved("get", key, NoneV, NoneV, out, exc)
  /\ UNCHANGED <<now, redis_reachable, rl_vars, last_set, last_invalidate,
                 wrapper_vars>>

InvalidateCacheCall(pattern) ==
  /\ \E exc \in StoreAnswers :
       LET out == invalidate_cache(pattern, now, exc)
       IN /\ CacheApplied(out)
          /\ last_set' = [k \in CacheKeys |->
                            IF /\ out.redis[k] = LiveCache(redis_cache, now)[k]
                               /\ out.memory[k] = memory_cache[k]
                            THEN last_set[k] ELSE NoneV]
          /\ last_invalidate' = IF out.raised = "None" THEN Some(pattern)
                                ELSE last_invalidate
          /\ zsets' = [i \in Identities |->
                         IF out.wrote = "redis" /\ i \in limit_keys(pattern, now)
                         THEN [members |-> {}, expire_at |-> NoneV]
                         ELSE zsets[i]]
          /\ res' = CacheObserved("invalidate", pattern, NoneV, NoneV, out, exc)
  /\ UNCHANGED <<now, redis_reachable, rl_redis_client, memory_storage, calls,
                 last, hist, wrapper_vars>>

\* The cache's operations, called on their own.
SetCache(key, value, ttl_seconds) ==
  SetCacheCall(key, value, ttl_seconds) /\ UNCHANGED conc_vars

GetCache(key) == GetCacheCall(key) /\ UNCHANGED conc_vars

InvalidateCache(pattern) == InvalidateCacheCall(pattern) /\ UNCHANGED conc_vars

\* ------------------------------------------------------- concurrent checks
\* The arguments of the workers' calls, all for one identity.
SharedLimit == PyOr(NoneV, settings.RATE_LIMIT_REQUESTS)
SharedWindow == PyOr(Some(MaxWindow), settings.RATE_LIMIT_WINDOW_SECONDS)

\* zcard queued after zadd: the count includes the call's own timestamp.
ExecuteCountsAfterAdd(zset, current_time, window_start, window_seconds, clock) ==
  LET z0 == Live(zset, clock).members
      z1 == ZRemRangeByScore(z0, 0, window_start)
      z2 == ZAdd(z1, Str(current_time), current_time)
  IN [zset |-> [members |-> z2,
                expire_at |-> Some(clock + Ticks(window_seconds))],
      results |-> <<Cardinality(z0) - Cardinality(z1), ZCard(z2),
                    Cardinality(z2) - Cardinality(z1), 1>>]

\* pipe.execute(): the commands queued on redis_client.pipeline(), a
\* MULTI/EXEC transaction, run on the store one after the other with no
\* command of another client between them. clock is the store's time when
\* they run; current_time is what the caller read before.
Execute(zset, current_time, window_start, window_seconds, clock) ==
  LET z0 == Live(zset, clock).members
      z1 == ZRemRangeByScore(z0, 0, window_start)
      z2 == ZAdd(z1, Str(current_time), current_time)
  IN [zset |-> [members |-> z2,
                expire_at |-> Some(clock + Ticks(window_seconds))],
      results |-> <<Cardinality(z0) - Cardinality(z1), ZCard(z1),
                    Cardinality(z2) - Cardinality(z1), 1>>]

\* sliding_window_rate_limit in worker w, up to current_time = time.time()
CheckBegin(w) ==
  /\ in_flight[w].at = "idle"
  /\ in_flight' = [in_flight EXCEPT
                     ![w] = [NoCall EXCEPT !.at = "timed",
                                           !.current_time = Some(now)]]
  /\ res' = Idle
  /\ UNCHANGED <<now, redis_reachable, rl_vars, cache_vars, wrapper_vars, db,
                 handlers, tasks, running>>

\* sliding_window_rate_limit in worker w, from get_redis_client() to its
\* return, with the shared store answering.
CheckExecute(w) ==
  /\ in_flight[w].at = "timed"
  /\ redis_reachable
  /\ LET current_time == Get(in_flight[w].current_time)
         pipe == Execute(zsets[IdA], current_time,
                         current_time - Ticks(SharedWindow), SharedWindow, now)
         request_count == pipe.results[2]
         done == { v \in Workers : in_flight[v].at = "done" }
     IN /\ zsets' = [zsets EXCEPT ![IdA] = pipe.zset]
        /\ rl_redis_client' = get_redis_client(rl_redis_client, "None").client
        /\ in_flight' = [in_flight EXCEPT
                           ![w] = [at |-> "done",
                                   current_time |-> Some(current_time),
                                   executed |-> Some(now),
                                   nth |-> Some(Cardinality(done) + 1),
                                   is_allowed |-> Some(request_count < SharedLimit)]]
        /\ res' = [op |-> "execute", worker |-> w, at |-> now,
                   request_count |-> request_count,
                   is_allowed |-> request_count < SharedLimit,
                   remaining |-> Max(0, SharedLimit - request_count - 1),
                   limit |-> SharedLimit,
                   reset_time |-> ResetTime(current_time, SharedWindow)]
  /\ UNCHANGED <<now, redis_reachable, memory_storage, calls, last, hist,
                 cache_vars, wrapper_vars, db, handlers, tasks, running>>

\* ------------------------------------------- calls on the in-process store
\* The limit the requests call the limiter with; the cache they call with
\* the key listing:1, the pattern listing:* and one second to live.
TaskLimit == 1

\* Threads: any request's next step may run at any time.
RunsPreempted(t) == TRUE

\* The requests are coroutines of one event loop. sliding_window_rate_limit,
\* _memory_rate_limit, get_cache, set_cache and invalidate_cache are plain
\* functions without an await, called from async def handlers and
\* dependencies: the loop runs a call to its return before it runs a step of
\* another request.
Runs(t) == running \in {NoneV, Some(t)}

TaskStays ==
  UNCHANGED <<now, redis_reachable, rl_redis_client, zsets, calls, last, hist,
              cache_redis_client, redis_cache, last_set, last_invalidate,
              wrapper_vars, db, handlers, in_flight>>

\* The request is inside the call, at pc.
Inside(t, pc, current_time, entry, local) ==
  /\ tasks' = [tasks EXCEPT
                 ![t] = [pc |-> pc, current_time |-> current_time,
                         entry |-> entry, local |-> local, done |-> @.done]]
  /\ running' = Some(t)
  /\ res' = Idle

\* The request returns from the call. serial is what the call, made in one
\* piece on the state it met, returns and leaves.
Returns(t, op, returned, raised, left, serial) ==
  /\ tasks' = [tasks EXCEPT ![t] = IdleTask(TRUE)]
  /\ running' = NoneV
  /\ res' = [op |-> op, task |-> t, at |-> now, returned |-> returned,
             current_time |-> tasks[t].current_time,
             raised |-> raised, left |-> left, serial |-> serial,
             others_done |-> \E u \in Tasks \ {t} : tasks[u].done]

\* sliding_window_rate_limit with the shared store unreachable, up to
\* window_start of _memory_rate_limit
MemoryCheckCall(t) ==
  /\ Runs(t) /\ tasks[t].pc = "idle"
  /\ Inside(t, "clean", Some(now), Some(memory_storage[IdA]), NoneV)
  /\ UNCHANGED <<memory_storage, memory_cache>>
  /\ TaskStays

\* _memory_storage[client_id] = [t for t in ... if t > window_start]
MemoryCheckClean(t) ==
  /\ Runs(t) /\ tasks[t].pc = "clean"
  /\ memory_storage' =
       [memory_storage EXCEPT
          ![IdA] = Clean(@, Get(tasks[t].current_time) - Ticks(ConfiguredWindow))]
  /\ Inside(t, "count", tasks[t].current_time, tasks[t].entry, NoneV)
  /\ UNCHANGED memory_cache
  /\ TaskStays

\* request_count = len(_memory_storage[client_id])
MemoryCheckCount(t) ==
  /\ Runs(t) /\ tasks[t].pc = "count"
  /\ Inside(t, "decide", tasks[t].current_time, tasks[t].entry,
            Some(Len(memory_storage[IdA])))
  /\ UNCHANGED <<memory_storage, memory_cache>>
  /\ TaskStays

\* if request_count < limit: append ... return
MemoryCheckDecide(t) ==
  /\ Runs(t) /\ tasks[t].pc = "decide"
  /\ LET current_time == Get(tasks[t].current_time)
         request_count == Get(tasks[t].local)
         is_allowed == request_count < TaskLimit
         result == [is_allowed |-> is_allowed,
                    remaining |-> IF is_allowed
                                  THEN TaskLimit - request_count - 1 ELSE 0,
                    limit |-> TaskLimit,
                    reset_time |-> ResetTime(current_time, ConfiguredWindow)]
         list == IF is_allowed
                 THEN Append(memory_storage[IdA], current_time)
                 ELSE memory_storage[IdA]
         serial == _memory_rate_limit(Get(tasks[t].entry), TaskLimit,
                                      ConfiguredWindow, current_time)
     IN /\ memory_storage' = [memory_storage EXCEPT ![IdA] = list]
        /\ Returns(t, "memory_check", Some(result), "None", list,
                   [returned |-> Some(serial.result), left |-> serial.storage])
  /\ UNCHANGED memory_cache
  /\ TaskStays

\* get_cache with the shared store unreachable:
\* if key in _memory_cache: value, expires_at = _memory_cache[key]
GetMemoryCall(t) ==
  /\ Runs(t) /\ tasks[t].pc = "idle"
  /\ IF memory_cache[Listing1] # NoneV
     THEN Inside(t, "found", NoneV, NoneV, memory_cache[Listing1])
     ELSE LET serial == get_cache(Listing1, now, "ConnectionError")
          IN Returns(t, "memory_get", NoneV, "None", memory_cache,
                     [returned |-> serial.returned, left |-> serial.memory])
  /\ UNCHANGED <<memory_storage, memory_cache>>
  /\ TaskStays

\* if time.time() < expires_at: return value; else: del _memory_cache[key]
GetMemoryReturn(t) ==
  /\ Runs(t) /\ tasks[t].pc = "found"
  /\ LET entry == Get(tasks[t].local)
         serial == get_cache(Listing1, now, "ConnectionError")
         expected == [returned |-> serial.returned, left |-> serial.memory]
         deleted == [memory_cache EXCEPT ![Listing1] = NoneV]
     IN IF now < entry.expires_at
        THEN /\ Returns(t, "memory_get", Some(entry.value), "None",
                        memory_cache, expected)
             /\ UNCHANGED memory_cache
        ELSE /\ Returns(t, "memory_get", NoneV,
                        IF memory_cache[Listing1] = NoneV THEN "KeyError"
                        ELSE "None",
                        deleted, expected)
             /\ memory_cache' = deleted
  /\ UNCHANGED memory_storage
  /\ TaskStays

\* set_cache with the shared store unreachable:
\* _memory_cache[key] = (value, time.time() + ttl_seconds); return True
SetMemory(t) ==
  /\ Runs(t) /\ tasks[t].pc = "idle"
  /\ LET serial == set_cache(Listing1, PyList(<<1>>), 1, now, "ConnectionError")
         written == [memory_cache EXCEPT
                       ![Listing1] = Some([value |-> PyList(<<1>>),
                                          expires_at |-> now + Ticks(1)])]
     IN /\ memory_cache' = written
        /\ Returns(t, "memory_set", Some(TRUE), "None", written,
                   [returned |-> serial.returned, left |-> serial.memory])
  /\ UNCHANGED memory_storage
  /\ TaskStays

\* invalidate_cache with the shared store unreachable:
\* keys_to_delete = [k for k in _memory_cache.keys() if ... in k]
InvalidateMemoryCall(t) ==
  /\ Runs(t) /\ tasks[t].pc = "idle"
  /\ Inside(t, "collected", NoneV, NoneV,
            Some({ k \in CacheKeys :
                     /\ memory_cache[k] # NoneV
                     /\ Contains(Replace(<<"listing", Colon, Star>>), k) }))
  /\ UNCHANGED <<memory_storage, memory_cache>>
  /\ TaskStays

\* for k in keys_to_delete: del _memory_cache[k]; count += 1 ... return count
InvalidateMemoryDelete(t) ==
  /\ Runs(t) /\ tasks[t].pc = "collected"
  /\ LET keys_to_delete == Get(tasks[t].local)
         serial == invalidate_cache(<<"listing", Colon, Star>>, now, "ConnectionError")
         cleaned == [k \in CacheKeys |->
                       IF k \in keys_to_delete THEN NoneV ELSE memory_cache[k]]
         missing == \E k \in keys_to_delete : memory_cache[k] = NoneV
     IN /\ memory_cache' = cleaned
        /\ Returns(t, "memory_invalidate",
                   IF missing THEN NoneV ELSE Some(Cardinality(keys_to_delete)),
                   IF missing THEN "KeyError" ELSE "None", cleaned,
                   [returned |-> serial.returned, left |-> serial.memory])
  /\ UNCHANGED memory_storage
  /\ TaskStays

\* ------------------------------------------------------- listing handlers
\* ttl_seconds=60 of get_listing
ListingTTL == 60

\* `if cached:` and `if not listing:`: None, and an empty container, are
\* false.
IsTruthy(returned) ==
  /\ returned # NoneV
  /\ Get(returned).type # "NoneType"
  /\ Get(returned).items # <<>>

\* The handlers of listing 1 run in worker processes that share the database
\* and the shared store, so that the calls one handler makes on them are
\* steps between which the calls of another handler can fall.
\* get_listing: cached = get_cache(cache_key); if cached: return cached
GetListingLookup ==
  /\ handlers.get_listing.at = "idle"
  /\ GetCacheCall(Listing1)
  /\ handlers' = [handlers EXCEPT
                    !.get_listing.at =
                       IF res'.raised = "None" /\ ~IsTruthy(res'.returned)
                       THEN "missed" ELSE "idle"]
  /\ UNCHANGED <<db, in_flight, tasks, running>>

\* get_listing: listing = db.query(...).first(); if not listing: raise
GetListingQuery ==
  /\ handlers.get_listing.at = "missed"
  /\ handlers' = [handlers EXCEPT
                    !.get_listing = IF db = NoneV
                                    THEN [at |-> "idle", listing |-> NoneV]
                                    ELSE [at |-> "queried", listing |-> db]]
  /\ res' = [op |-> "query", key |-> Listing1, returned |-> db,
             raised |-> IF db = NoneV THEN "NotFoundError" ELSE "None"]
  /\ UNCHANGED <<now, redis_reachable, rl_vars, cache_vars, wrapper_vars, db,
                 in_flight, tasks, running>>

\* get_listing: set_cache(cache_key, ....model_dump(mode='json'), 60); return
GetListingStore ==
  /\ handlers.get_listing.at = "queried"
  /\ SetCacheCall(Listing1, model_dump(Get(handlers.get_listing.listing)),
                  ListingTTL)
  /\ handlers' = [handlers EXCEPT
                    !.get_listing = [at |-> "idle", listing |-> NoneV]]
  /\ UNCHANGED <<db, in_flight, tasks, running>>

\* update_listing, up to db.commit(): the row gets its next version.
UpdateListingCommit ==
  /\ handlers.writer = "idle"
  /\ db # NoneV => Get(db).items[1] < MaxVersion
  /\ db' = IF db = NoneV THEN db ELSE Some(Listing(Get(db).items[1] + 1))
  /\ handlers' = [handlers EXCEPT
                    !.writer = IF db = NoneV THEN "idle" ELSE "committed"]
  /\ res' = [op |-> "update_listing", key |-> Listing1, returned |-> db',
             raised |-> IF db = NoneV THEN "NotFoundError" ELSE "None"]
  /\ UNCHANGED <<now, redis_reachable, rl_vars, cache_vars, wrapper_vars,
                 in_flight, tasks, running>>

\* delete_listing, up to db.commit(): the row is gone.
DeleteListingCommit ==
  /\ handlers.writer = "idle"
  /\ db' = NoneV
  /\ handlers' = [handlers EXCEPT
                    !.writer = IF db = NoneV THEN "idle" ELSE "committed"]
  /\ res' = [op |-> "delete_listing", key |-> Listing1, returned |-> NoneV,
             raised |-> IF db = NoneV THEN "NotFoundError" ELSE "None"]
  /\ UNCHANGED <<now, redis_reachable, rl_vars, cache_vars, wrapper_vars,
                 in_flight, tasks, running>>

\* update_listing and delete_listing, after the commit:
\* invalidate_cache(f"listing:{listing_id}"); return
WriterInvalidate ==
  /\ handlers.writer = "committed"
  /\ InvalidateCacheCall(Listing1)
  /\ handlers' = [handlers EXCEPT !.writer = "idle"]
  /\ UNCHANGED <<db, in_flight, tasks, running>>

\* get_client_identifier(request), for any request.
Identify(request) ==
  /\ res' = [op |-> "identify", request |-> request,
             id |-> get_client_identifier(request)]
  /\ UNCHANGED <<conc_vars, now, redis_reachable, rl_vars, cache_vars, wrapper_vars>>

\* ------------------------------------------------------- cached(...).wrapper
\* cached_value is not None
IsNotNone(returned) == returned # NoneV /\ Get(returned) # PyNone

\* What a step of the wrapper leaves to see: the call, its key, whether it
\* has returned and what, and what the wrapper last stored under the key.
WrapperObserved(step, args, kwargs, key, out, exc, returned, invoked) ==
  [op |-> "wrapper", step |-> step, args |-> args, kwargs |-> kwargs,
   cache_key |-> key, at |-> now, raised |-> out.raised, returned |-> returned,
   invoked |-> invoked, store_error |-> exc, stored |-> memo[key]]

\* wrapper(*args, **kwargs) up to the await: the key is built and the cache
\* read; a value that is not None is returned, else the operation is awaited.
WrapperEnter(args, kwargs) ==
  /\ wrapper_pc = NoneV
  /\ calls < MaxCalls
  /\ calls' = calls + 1
  /\ \E exc \in StoreAnswers :
       LET key == cache_key(kwargs)
           out == get_cache(key, now, exc)
       IN /\ CacheApplied(out)
          /\ IF out.raised # "None"
             THEN /\ wrapper_pc' = NoneV
                  /\ res' = WrapperObserved("raised", args, kwargs, key, out, exc,
                                            NoneV, FALSE)
             ELSE IF IsNotNone(out.returned)
             THEN /\ wrapper_pc' = NoneV
                  /\ res' = WrapperObserved("hit", args, kwargs, key, out, exc,
                                            out.returned, FALSE)
             ELSE /\ wrapper_pc' = Some([args |-> args, kwargs |-> kwargs,
                                         cache_key |-> key])
                  /\ res' = WrapperObserved("miss", args, kwargs, key, out, exc,
                                            NoneV, FALSE)
  /\ UNCHANGED <<conc_vars, now, redis_reachable, rl_redis_client, memory_storage, zsets,
                 last, hist, last_set, last_invalidate, memo>>

\* The awaited operation returns result; the wrapper stores it, as a dict when
\* it is a model instance, and returns it.
WrapperInvoke(result) ==
  /\ wrapper_pc # NoneV
  /\ \E exc \in StoreAnswers :
       LET call == Get(wrapper_pc)
           cacheable == IF result.type = "model" THEN model_dump(result) ELSE result
           out == set_cache(call.cache_key, cacheable, decorator.ttl_seconds, now, exc)
       IN /\ CacheApplied(out)
          /\ last_set' = IF out.raised = "None"
                         THEN [last_set EXCEPT
                                 ![call.cache_key] =
                                   Some([value |-> cacheable, at |-> now,
                                         ttl |-> decorator.ttl_seconds])]
                         ELSE last_set
          /\ last_invalidate' = IF out.raised = "None" THEN NoneV
                                ELSE last_invalidate
          /\ memo' = IF out.raised = "None"
                     THEN [memo EXCEPT
                             ![call.cache_key] =
                               Some([result |-> result, at |-> now,
                                     args |-> call.args, kwargs |-> call.kwargs])]
                     ELSE memo
          /\ wrapper_pc' = NoneV
          /\ res' = WrapperObserved("invoked", call.args, call.kwargs, call.cache_key,
                                    out, exc,
                                    IF out.raised = "None" THEN Some(result) ELSE NoneV,
                                    TRUE)
  /\ UNCHANGED <<conc_vars, now, redis_reachable, rl_vars>>

\* ---------------------------------------------------------- specifications
\* Direct calls with any of the arguments, on one identity.
NextRateLimit ==
  \/ Tick
  \/ RedisFails
  \/ RedisRecovers
  \/ \E i \in Callers, l \in LimitArgs, w \in WindowArgs : Check(i, l, w, FALSE)

RateLimitSpec == Init /\ [][NextRateLimit]_vars

\* The same calls, each entered in the identity's record of calls.
NextRateLimitHistory ==
  \/ Tick
  \/ RedisFails
  \/ RedisRecovers
  \/ \E i \in Callers, l \in LimitArgs, w \in WindowArgs : Check(i, l, w, TRUE)

RateLimitHistorySpec == Init /\ [][NextRateLimitHistory]_vars

\* Checks and cache operations of one process at one clock value, while the
\* shared store fails and recovers.
NextProbe ==
  \/ RedisFails
  \/ RedisRecovers
  \/ \E i \in Callers : Check(i, Some(1), Some(ConfiguredWindow), FALSE)
  \/ \E k \in Cached : SetCache(k, PyList(<<1>>), MaxTTL)
  \/ \E k \in Cached : GetCache(k)
  \/ \E p \in Patterns : InvalidateCache(p)

ProbeSpec == Init /\ [][NextProbe]_vars

\* invalidate_cache("*")
Everything == <<Star>>

\* Checks for two identities and cache operations of one process at one
\* clock value, while the shared store fails and recovers.
NextFrame ==
  \/ RedisFails
  \/ RedisRecovers
  \/ \E i \in Identities : Check(i, Some(1), Some(ConfiguredWindow), FALSE)
  \/ \E k \in Cached : SetCache(k, PyList(<<1>>), MaxTTL)
  \/ \E k \in Cached : GetCache(k)
  \/ \E p \in {Everything, <<"listing", Colon, Star>>} : InvalidateCache(p)

FrameSpec == Init /\ [][NextFrame]_vars

\* One sequence of calls, answered by both stores.
NextEquivalence ==
  \/ Tick
  \/ \E i \in Callers, l \in LimitArgs, w \in WindowArgs : CheckBoth(i, l, w)

EquivalenceSpec == Init /\ [][NextEquivalence]_vars

\* Requests through the dependency, with and without a forwarding header.
NextDependency ==
  \/ Tick
  \/ RedisFails
  \/ RedisRecovers
  \/ \E r \in { q \in Requests : get_client_identifier(q) \in Callers } :
       Request(r)

DependencySpec == Init /\ [][NextDependency]_vars

\* The cache's operations on one key, with every value and time to live.
NextCache ==
  \/ Tick
  \/ RedisFails
  \/ RedisRecovers
  \/ \E k \in Cached, v \in CacheValues, ttl \in TTLs : SetCache(k, v, ttl)
  \/ \E k \in Cached : GetCache(k)
  \/ \E p \in Patterns : InvalidateCache(p)

CacheSpec == Init /\ [][NextCache]_vars

\* What each key is set to where several keys are written.
ValueOf(key) == IF key = Listing2 THEN PyList(<<2>>) ELSE PyList(<<1>>)

\* Sets, reads and invalidations over all the keys, at one clock value.
NextInvalidate ==
  \/ RedisFails
  \/ RedisRecovers
  \/ \E k \in Listed : SetCache(k, ValueOf(k), MaxTTL)
  \/ \E k \in Listed : GetCache(k)
  \/ \E p \in Patterns : InvalidateCache(p)

InvalidateSpec == Init /\ [][NextInvalidate]_vars

\* One keyword argument, as in the test's call of expensive_function.
Memoized == { << <<"x", 1>> >> }

\* The identity of every request.
NextIdentity == \E request \in Inbound : Identify(request)

IdentitySpec == Init /\ [][NextIdentity]_vars

\* Calls of the wrapped operation with the same arguments, while time passes
\* and the shared store fails and recovers.
NextMemo ==
  \/ Tick
  \/ RedisFails
  \/ RedisRecovers
  \/ \E kwargs \in Memoized : WrapperEnter(<<>>, kwargs)
  \/ \E result \in Results : WrapperInvoke(result)

MemoSpec == Init /\ [][NextMemo]_vars

\* Calls of the wrapped operation with every argument list, at one clock
\* value; the operation returns a dict.
NextMemoKey ==
  \/ RedisFails
  \/ RedisRecovers
  \/ \E args \in ArgsPassed, kwargs \in KwargsPassed : WrapperEnter(args, kwargs)
  \/ WrapperInvoke(PyDict(<<1>>))

MemoKeySpec == Init /\ [][NextMemoKey]_vars

\* Check calls of several workers for one identity, each reading its clock
\* and then running its pipeline, with the shared store answering.
NextConcurrent ==
  \/ Tick
  \/ \E w \in Workers : CheckBegin(w)
  \/ \E w \in Workers : CheckExecute(w)

ConcurrentSpec == InitReachable /\ [][NextConcurrent]_vars

\* The requests of one process calling the limiter and the cache while the
\* shared store is unreachable.
NextTask ==
  \/ Tick
  \/ \E t \in Tasks : MemoryCheckCall(t)
  \/ \E t \in Tasks : MemoryCheckClean(t)
  \/ \E t \in Tasks : MemoryCheckCount(t)
  \/ \E t \in Tasks : MemoryCheckDecide(t)
  \/ \E t \in Tasks : GetMemoryCall(t)
  \/ \E t \in Tasks : GetMemoryReturn(t)
  \/ \E t \in Tasks : SetMemory(t)
  \/ \E t \in Tasks : InvalidateMemoryCall(t)
  \/ \E t \in Tasks : InvalidateMemoryDelete(t)

TaskSpec == InitUnreachable /\ [][NextTask]_vars

\* The handlers of one listing in concurrent workers, with the shared store
\* answering every call.
NextListing ==
  \/ Tick
  \/ GetListingLookup
  \/ GetListingQuery
  \/ GetListingStore
  \/ UpdateListingCommit
  \/ DeleteListingCommit
  \/ WriterInvalidate

ListingSpec == InitReachable /\ [][NextListing]_vars

\* ------------------------------------------------------------------ claims
\* The arguments of an identity's calls, while they were all the same.
LimitOf(h) == Get(Get(h.lims))
WindowOf(h) == Get(Get(h.wins))

\* The effective arguments of the call that has just returned.
LimitUsed == PyOr(res.limit_arg, settings.RATE_LIMIT_REQUESTS)
WindowUsed == PyOr(res.window_arg, settings.RATE_LIMIT_WINDOW_SECONDS)

\* C1: for an identity checked with one limit L >= 1 and one window W by one
\* backend throughout, every interval (t - W, t] holds at most L of the calls
\* that returned allowed.
C1_AtMostLimitAdmittedPerWindow ==
  \A i \in Callers :
    LET h == hist[i]
    IN (Uniform(h) /\ LimitOf(h) >= 1) =>
         \A t \in 0..MaxTime :
           Cardinality({ k \in DOMAIN h.admits :
                           /\ t - Ticks(WindowOf(h)) < h.admits[k]
                           /\ h.admits[k] <= t }) <= LimitOf(h)

\* C2: from an empty record, with calls of one (L, W) that all fall within W
\* of the first, the k-th call returns (allowed, L - k, L) for k <= L and
\* (denied, 0, L) for k > L.
C2_KthCallWithinWindow ==
  \A i \in Callers :
    LET h == hist[i]
    IN (/\ res.op = "check" /\ res.id = i
        /\ Uniform(h) /\ LimitOf(h) >= 1
        /\ res.at - Get(h.first) < Ticks(WindowOf(h))) =>
         LET r == Get(res.result)
         IN /\ r.limit = LimitOf(h)
            /\ IF h.n <= LimitOf(h)
               THEN r.is_allowed /\ r.remaining = LimitOf(h) - h.n
               ELSE ~r.is_allowed /\ r.remaining = 0

\* The call that has just returned is the first one for its identity since
\* the identity exhausted its limit, and a whole window has passed since.
AfterExhaustedWindow ==
  /\ res.op = "check"
  /\ res.prev.exhausted
  /\ res.at >= Get(res.prev.at) + Ticks(WindowUsed)

\* C3: an identity that exhausted its limit (last check denied, or admitted
\* with remaining = 0) and is next checked window_seconds later or more is
\* allowed by that check.
C3_AllowedAfterWindow ==
  AfterExhaustedWindow => res.result # NoneV /\ Get(res.result).is_allowed

\* C3 (witness): the in-process store allows a check made exactly one window
\* after the check that exhausted the identity's limit.
C3_Witness ==
  /\ AfterExhaustedWindow
  /\ res.at = Get(res.prev.at) + Ticks(WindowUsed)
  /\ res.backend = "memory"
  /\ Get(res.result).is_allowed

\* C4: with c the timestamps recorded for the identity that are newer than
\* now - window_seconds before the call, a call with limit >= 0 and
\* window_seconds >= 1 returns allowed = (c < limit), remaining =
\* max(0, limit - c - 1), limit = the argument, reset_at = now + window_seconds.
C4_ResultFromCountBefore ==
  res.op = "check" =>
    LET limit == Get(res.limit_arg)
        window_seconds == Get(res.window_arg)
        c == res.seen_before
        r == Get(res.result)
    IN /\ r.is_allowed = (c < limit)
       /\ r.remaining = Max(0, limit - c - 1)
       /\ r.limit = limit
       /\ Ticks(r.reset_time) = res.at + Ticks(window_seconds)

\* C5: a denied call records its own timestamp too: after it the identity's
\* window record holds one entry more than it held, pruned, before the call,
\* in the in-process store as in the shared one.
C5_DeniedCallRecorded ==
  (res.op = "check" /\ res.result # NoneV /\ ~Get(res.result).is_allowed) =>
    res.size_after = res.seen_before + 1

\* C6: a check raises nothing and returns a result whatever the shared store
\* does; when the store fails the call, the decision is the one the
\* in-process store's record gives.
C6_NeverRaises ==
  res.op = "check" =>
    /\ res.raised = "None"
    /\ res.result # NoneV
    /\ res.store_error # "None" =>
         /\ res.backend = "memory"
         /\ Get(res.result).is_allowed = (res.mem_before < LimitUsed)
         /\ Get(res.result).remaining =
              Max(0, LimitUsed - res.mem_before - IF res.mem_before < LimitUsed
                                                  THEN 1 ELSE 0)

\* C6 (witness): the store answered the probe of an earlier call and times
\* out in the pipeline of this one, which returns the in-process decision.
C6_Witness ==
  /\ res.op = "check"
  /\ res.client_before = "client"
  /\ res.store_error = "TimeoutError"
  /\ res.raised = "None"
  /\ res.backend = "memory"

\* C7: the dependency runs the check before the handler; on a denial it
\* raises RateLimitError (429, RATE_LIMIT_EXCEEDED) with details.retry_after =
\* reset_at - now, which is not negative, and the handler does not run; on an
\* admission it raises nothing and the handler runs.
C7_DenialShortCircuits ==
  res.op = "request" =>
    IF Get(res.result).is_allowed
    THEN res.raised = "None" /\ res.error = NoneV /\ res.handler_ran
    ELSE /\ res.raised = "RateLimitError"
         /\ ~res.handler_ran
         /\ res.error # NoneV
         /\ Get(res.error).status_code = 429
         /\ Get(res.error).error_code = "RATE_LIMIT_EXCEEDED"
         /\ Get(res.error).details.retry_after =
              Get(res.result).reset_time - PyInt(now)
         /\ Get(res.error).details.retry_after >= 0

\* C8: over an identity's successive admitted calls within one window, with
\* one limit and one window_seconds, remaining never grows and strictly
\* decreases from each admitted call to the next.
C8_RemainingDecreases ==
  \A i \in Callers :
    LET h == hist[i]
    IN (/\ Uniform(h)
        /\ h.admits # <<>>
        /\ h.admits[Len(h.admits)] - h.admits[1] < Ticks(WindowOf(h))) =>
         \A k \in 1..(Len(h.rems) - 1) : h.rems[k + 1] < h.rems[k]

\* A value that JSON represents and gives back as it was.
JsonFaithful(value) ==
  /\ json_dumps(value).raised = "None"
  /\ json_loads(Get(json_dumps(value).text)) = value

\* C9: with the shared store in one condition from a set(key, v, ttl) at time
\* s to a get(key) at time t, and no other write to the key in between, the
\* get returns v when t < s + ttl and absent when t >= s + ttl, and then the
\* in-process map holds no entry for the key. Stated for the values that JSON
\* gives back as they were.
C9_GetAfterSet ==
  (res.op = "get" /\ res.last # NoneV /\ JsonFaithful(Get(res.last).value)) =>
    LET set == Get(res.last)
    IN IF res.at < set.at + Ticks(set.ttl)
       THEN res.raised = "None" /\ res.returned = Some(set.value)
       ELSE res.raised = "None" /\ res.returned = NoneV /\ res.memory_entry = NoneV

\* C10: set raises nothing and returns true whatever the shared store does;
\* a successful shared-store write leaves the entry there and the in-process
\* map as it was, otherwise the in-process map gets the entry with
\* expires_at = now + ttl.
C10_SetAlwaysSucceeds ==
  res.op = "set" =>
    /\ res.raised = "None"
    /\ res.returned = Some(TRUE)
    /\ IF res.wrote = "redis"
       THEN /\ res.redis_entry =
                 Some([value |-> Get(json_dumps(Get(res.value)).text),
                       expire_at |-> res.at + Ticks(Get(res.ttl))])
            /\ ~res.memory_changed
       ELSE res.memory_entry =
              Some([value |-> Get(res.value),
                    expires_at |-> res.at + Ticks(Get(res.ttl))])

\* k starts with the tokens of p.
StartsWith(k, p) == Len(k) >= Len(p) /\ SubSeq(k, 1, Len(p)) = p

\* The shared store's match for a pattern with no wildcard, or with one at
\* its end: the key itself, or every key that starts with what precedes it.
GlobMatches(pattern, k) ==
  IF pattern # <<>> /\ pattern[Len(pattern)] = Star
  THEN StartsWith(k, SubSeq(pattern, 1, Len(pattern) - 1))
  ELSE k = pattern

\* The in-process match: what is left of the pattern without its wildcards
\* lies somewhere in the key.
SubstringMatches(pattern, k) ==
  LET stripped == SelectSeq(pattern, LAMBDA c : c # Star)
  IN \E i \in 0..Len(k), j \in 0..Len(k) :
       i <= j /\ SubSeq(k, 1, i) \o stripped \o SubSeq(k, j + 1, Len(k)) = k

\* C11: invalidate(pattern) removes from the shared store the keys the glob
\* matches and from the in-process map the keys that contain the pattern
\* without its wildcards, returns how many entries it removed, and leaves
\* every other entry as it was.
C11_InvalidateRemovesMatching ==
  (res.op = "invalidate" /\ res.store_error = "None") =>
    /\ res.raised = "None"
    /\ res.redis_removed = { k \in res.redis_held : GlobMatches(res.key, k) }
    /\ res.memory_removed = { k \in res.memory_held : SubstringMatches(res.key, k) }
    /\ res.returned =
         Some(Cardinality(res.redis_removed) + Cardinality(res.memory_removed))
    /\ res.others_kept

\* C11 (witness): with listing:1, listing:2 and user:1 set, invalidate of
\* listing:* has returned 2, neither store holds a listing key any more and
\* user:1 is still held.
C11_Witness ==
  /\ res.op = "invalidate"
  /\ res.key = <<"listing", Colon, Star>>
  /\ res.redis_held \cup res.memory_held = { Listing1, Listing2, User1 }
  /\ res.returned = Some(2)
  /\ \A k \in { Listing1, Listing2 } : redis_cache[k] = NoneV /\ memory_cache[k] = NoneV
  /\ redis_cache[User1] # NoneV \/ memory_cache[User1] # NoneV

\* C12: an invalidate(pattern) that follows an invalidate(pattern), with no
\* set in between, returns 0 and changes neither store.
C12_SecondInvalidateRemovesNothing ==
  (res.op = "invalidate" /\ res.after = Some(res.key)) =>
    /\ res.returned = Some(0)
    /\ res.redis_removed = {}
    /\ res.memory_removed = {}

\* C13: a get or an invalidate that meets a shared-store error raises
\* nothing; the get returns the in-process map's unexpired entry for the key,
\* or absent, and the invalidate removes the in-process matches and returns
\* their number.
C13_StoreErrorsAreMisses ==
  (res.op \in {"get", "invalidate"} /\ res.store_error # "None") =>
    /\ res.raised = "None"
    /\ res.redis_removed = {}
    /\ res.op = "get" =>
         res.returned =
           IF res.memory_before # NoneV /\ res.at < Get(res.memory_before).expires_at
           THEN Some(Get(res.memory_before).value)
           ELSE NoneV
    /\ res.op = "invalidate" =>
         /\ res.memory_removed =
              { k \in res.memory_held : SubstringMatches(res.key, k) }
         /\ res.returned = Some(Cardinality(res.memory_removed))

\* C13 (witness): the shared store answered an earlier probe and times out on
\* this get, which returns the entry of the in-process map.
C13_Witness ==
  /\ res.op = "get"
  /\ res.client_before = "client"
  /\ res.store_error = "TimeoutError"
  /\ res.raised = "None"
  /\ res.returned # NoneV

\* C14: a set of a value that JSON cannot represent raises nothing to its
\* caller, with the shared store reachable or not.
C14_UnrepresentableValueNotRaised ==
  (res.op = "set" /\ json_dumps(Get(res.value)).raised # "None") =>
    res.raised = "None"

\* C15: a call of the wrapped operation made before the time to live of the
\* result the wrapper last stored under its key has passed returns a value
\* equal to that result and does not invoke the operation.
C15_SecondCallServedFromCache ==
  (/\ res.op = "wrapper"
   /\ res.step \in {"hit", "miss"}
   /\ res.stored # NoneV
   /\ res.at < Get(res.stored).at + Ticks(decorator.ttl_seconds)) =>
    /\ res.step = "hit"
    /\ res.returned = Some(Get(res.stored).result)

RECURSIVE KeyTail(_)
\* Of a set of (name, value) pairs, ":name=value" for each, by increasing name.
KeyTail(pairs) ==
  IF pairs = {} THEN <<>>
  ELSE LET least == CHOOSE p \in pairs : \A q \in pairs : ord[p[1]] <= ord[q[1]]
       IN <<Colon, least[1], Equals, str(least[2])>> \o KeyTail(pairs \ {least})

\* C16: the wrapper's key is the prefix, a colon and the operation's name,
\* followed by the keyword arguments as name=value by increasing name: it is
\* the same for every order the keyword arguments are passed in and for
\* every positional argument.
C16_KeyFromSortedKwargs ==
  res.op = "wrapper" =>
    res.cache_key =
      <<decorator.key_prefix, Colon, func.__name__>>
      \o KeyTail({ res.kwargs[i] : i \in DOMAIN res.kwargs })

\* C16 (witness): a call with y passed before x and one positional argument
\* is served the entry of a call with x passed before y and another
\* positional argument.
C16_Witness ==
  /\ res.op = "wrapper"
  /\ res.step = "hit"
  /\ res.kwargs = << <<"y", 1>>, <<"x", 1>> >>
  /\ res.stored # NoneV
  /\ Get(res.stored).kwargs = << <<"x", 1>>, <<"y", 1>> >>
  /\ Get(res.stored).args # res.args

\* n spaces
Spaces(n) == [i \in 1..n |-> Space]

\* entry is what precedes the first comma of header, or all of it.
IsFirstEntry(entry, header) ==
  /\ StartsWith(header, entry)
  /\ \A i \in DOMAIN entry : entry[i] # Comma
  /\ Len(entry) = Len(header) \/ header[Len(entry) + 1] = Comma

\* id is entry without the spaces around it.
IsTrimmed(id, entry) ==
  /\ \E j \in 0..Len(entry), k \in 0..Len(entry) :
       entry = Spaces(j) \o id \o Spaces(k)
  /\ id = <<>> \/ (id[1] # Space /\ id[Len(id)] # Space)

\* C17: the identity of a request is the first comma-separated entry of its
\* X-Forwarded-For header without the whitespace around it when the header is
\* there and not empty, else the address of the direct connection, else
\* "unknown".
C17_IdentityOfRequest ==
  res.op = "identify" =>
    LET request == res.request
    IN IF request.forwarded_for # NoneV /\ Get(request.forwarded_for) # <<>>
       THEN \E n \in 0..Len(Get(request.forwarded_for)) :
              LET entry == SubSeq(Get(request.forwarded_for), 1, n)
              IN /\ IsFirstEntry(entry, Get(request.forwarded_for))
                 /\ IsTrimmed(res.id, entry)
       ELSE IF request.host # NoneV THEN res.id = Get(request.host)
       ELSE res.id = <<"u", "n", "k", "n", "o", "w", "n">>

\* C17 (witness): a request that came through a proxy, with spaces around the
\* first entry of its header, is identified by that entry and not by the
\* address of the proxy.
C17_Witness ==
  /\ res.op = "identify"
  /\ res.request.forwarded_for = Some(<<Space, "a", Space>>)
  /\ res.request.host = Some(IdB)
  /\ res.id = IdA

\* C19: an admitted check that carries the timestamp of the identity's
\* previous check is retained as an entry of its own: the record of the store
\* that served it holds one entry more than the check found in the window.
C19_SameTimestampRetained ==
  (/\ res.op = "check"
   /\ res.result # NoneV
   /\ Get(res.result).is_allowed
   /\ res.prev.at = Some(res.at)) =>
    res.size_after = res.seen_before + 1

\* C18: for one sequence of calls from empty records, the in-process store
\* returns for every call what the shared store returns for it.
C18_FallbackReturnsTheSame ==
  res.op = "both" =>
    /\ res.shared_backend = "redis"
    /\ res.fallback_backend = "memory"
    /\ res.fallback = res.shared

\* C20: for an identity checked with one limit L >= 1 and one window W, at
\* timestamps that differ from one admitted call to the next, every interval
\* (t - W, t] holds at most L of the calls that returned allowed, whichever
\* store served each call.
C20_LimitHeldAcrossStores ==
  \A i \in Callers :
    LET h == hist[i]
    IN (/\ SameArguments(h)
        /\ LimitOf(h) >= 1
        /\ \A j, k \in DOMAIN h.admits : j < k => h.admits[j] < h.admits[k]) =>
         \A t \in 0..MaxTime :
           Cardinality({ k \in DOMAIN h.admits :
                           /\ t - Ticks(WindowOf(h)) < h.admits[k]
                           /\ h.admits[k] <= t }) <= LimitOf(h)

\* C23: at a check, the timestamps the serving store holds for the identity
\* count toward the limit exactly when they are newer than now -
\* window_seconds: the call is allowed when fewer than limit of them are, and
\* none that is window_seconds old or older is left after the call.
C23_OnlyNewerThanWindowStartCount ==
  (res.op = "check" /\ res.result # NoneV) =>
    /\ Get(res.result).is_allowed = (res.seen_before < LimitUsed)
    /\ \A t \in res.stamps_after : t > res.at - Ticks(WindowUsed)

\* C23 (witness): the shared store held one timestamp, exactly window_seconds
\* old, for an identity checked with limit 1; the check is allowed and the
\* timestamp is gone.
C23_Witness ==
  /\ res.op = "check"
  /\ res.backend = "redis"
  /\ LimitUsed = 1
  /\ res.stamps_before = { res.at - Ticks(WindowUsed) }
  /\ Get(res.result).is_allowed
  /\ res.stamps_after = { res.at }

\* C24: a check made by a process whose probe of the shared store failed at
\* an earlier check is not served by the shared store.
C24_FailedProbeIsKept ==
  (res.op = "check" /\ res.prev.at # NoneV /\ res.client_before = "None") =>
    res.backend = "memory"

\* C24 (amended): a failed probe is not kept. A call of a process that holds
\* no client probes the store: when the store answers, the call is served by
\* the shared store and the client is kept; when it does not, the call is
\* served in process and the process still holds no client. A call of a
\* process that holds a client keeps it.
C24_FailedProbeIsRetried ==
  /\ res.op = "check" =>
       /\ (res.client_before = "None" /\ res.store_error = "None") =>
            res.backend = "redis" /\ rl_redis_client = "client"
       /\ (res.client_before = "None" /\ res.store_error # "None") =>
            res.backend = "memory" /\ rl_redis_client = "None"
       /\ res.client_before = "client" => rl_redis_client = "client"
  /\ res.op \in {"get", "set", "invalidate"} =>
       /\ (res.client_before = "None" /\ res.store_error = "None") =>
            /\ cache_redis_client = "client"
            /\ res.op \in {"set", "invalidate"} => res.wrote = "redis"
       /\ (res.client_before = "None" /\ res.store_error # "None") =>
            /\ cache_redis_client = "None"
            /\ res.wrote # "redis"
       /\ res.client_before = "client" => cache_redis_client = "client"

\* C24 (witness): the probe of an earlier check failed, the store has
\* recovered, and this check is served by the shared store.
C24_Witness ==
  /\ res.op = "check"
  /\ res.prev.at # NoneV
  /\ res.client_before = "None"
  /\ res.store_error = "None"
  /\ res.backend = "redis"
  /\ rl_redis_client = "client"

\* C28: after a check served by the in-process store, for an identity whose
\* checks were all made with the same limit L, the identity's list holds at
\* most L timestamps, in non-decreasing order, each newer than the time of
\* the check less window_seconds.
C28_FallbackListBounded ==
  (/\ res.op = "check"
   /\ res.backend = "memory"
   /\ hist[res.id].lims = {res.limit_arg}) =>
    /\ Len(res.list_after) <= Get(res.limit_arg)
    /\ \A j, k \in DOMAIN res.list_after :
         j < k => res.list_after[j] <= res.list_after[k]
    /\ \A k \in DOMAIN res.list_after :
         res.list_after[k] > res.at - Ticks(WindowUsed)

\* C29: the count a check reads from the shared store is the count pruning
\* alone gives: the record's expiry has discarded no timestamp that is newer
\* than now - window_seconds.
C29_ExpiryDiscardsOnlyOldTimestamps ==
  (res.op = "check" /\ res.backend = "redis") =>
    res.seen_before = res.unexpired_before

\* C27: for an identity checked with one limit and one window, the check
\* made at reset_at of a denied check, with no check in between, is allowed.
C27_AdmittedAtRetryAfter ==
  (/\ res.op = "check"
   /\ res.result # NoneV
   /\ SameArguments(hist[res.id])
   /\ res.prev_denied # NoneV
   /\ res.at = Ticks(Get(res.prev_denied).reset_time)) =>
    Get(res.result).is_allowed

\* The step is a cache operation or a check for another identity than B.
NotACheckFor(B) ==
  \/ res'.op \in {"get", "set", "invalidate"}
  \/ res'.op = "check" /\ res'.id # B

\* C30: a check for another identity, or a cache get, set or invalidate with
\* any key or pattern, leaves the record of identity B as it was in both
\* stores, and leaves what B's next check returns as it was.
C30_OnlyOwnChecksChangeRecord ==
  [][\A B \in Identities :
       NotACheckFor(B) =>
         /\ zsets'[B] = zsets[B]
         /\ memory_storage'[B] = memory_storage[B]
         /\ \A exc \in StoreAnswers :
              sliding_window_rate_limit(B, Some(1), Some(ConfiguredWindow), now,
                                        exc)'.result
              = sliding_window_rate_limit(B, Some(1), Some(ConfiguredWindow), now,
                                          exc).result]_vars

\* C30 (witness): invalidate("*") has removed a cache entry from the shared
\* store while the store holds the record of an identity.
C30_Witness ==
  /\ res.op = "invalidate"
  /\ res.key = Everything
  /\ res.redis_removed # {}
  /\ zsets[IdB].members # {}
  /\ Live(zsets[IdB], now).members # {}

\* C25: a get of a key that follows a completed invalidate whose pattern
\* matches the key, with no set in between, returns no value, whatever the
\* shared store did in the meantime.
C25_NoValueAfterInvalidate ==
  (/\ res.op = "get"
   /\ res.after # NoneV
   /\ GlobMatches(Get(res.after), res.key)
   /\ SubstringMatches(Get(res.after), res.key)) =>
    res.returned = NoneV

\* C26: while no update_listing or delete_listing stands between its commit
\* and its invalidate, a get_listing that returns from the cache returns the
\* row the database holds.
C26_CacheReturnsCommittedListing ==
  (/\ res.op = "get"
   /\ res.key = Listing1
   /\ IsTruthy(res.returned)
   /\ handlers.writer = "idle") =>
    /\ db # NoneV
    /\ Get(res.returned) = model_dump(Get(db))

\* The workers whose calls have returned, and whether their timestamps are
\* distinct and their pipelines all ran within one window of the earliest
\* timestamp.
Returned == { w \in Workers : in_flight[w].at = "done" }

DistinctTimestamps ==
  \A v, w \in Returned :
    v # w => in_flight[v].current_time # in_flight[w].current_time

WithinOneWindow ==
  \A v, w \in Returned :
    Get(in_flight[w].executed) - Get(in_flight[v].current_time)
      < Ticks(SharedWindow)

\* C21: of the N check calls made for one identity on an empty record of the
\* shared store, with distinct timestamps and within one window, exactly
\* min(N, limit) are admitted, in whatever order the workers read their
\* clocks and ran their pipelines; the k-th pipeline to run counts k - 1.
C21_ConcurrentChecksAdmitMin ==
  (DistinctTimestamps /\ WithinOneWindow) =>
    /\ Cardinality({ w \in Returned : Get(in_flight[w].is_allowed) })
         = IF Cardinality(Returned) < SharedLimit
           THEN Cardinality(Returned) ELSE SharedLimit
    /\ \A w \in Returned :
         Get(in_flight[w].is_allowed) <=> Get(in_flight[w].nth) <= SharedLimit

\* C21 (witness): more calls than the limit have returned, every one of them
\* had read its clock before the first pipeline ran, and two pipelines ran in
\* the opposite order of their timestamps.
C21_Witness ==
  /\ DistinctTimestamps /\ WithinOneWindow
  /\ Cardinality(Returned) > SharedLimit
  /\ \A v, w \in Returned :
       Get(in_flight[v].current_time) <= Get(in_flight[w].executed)
  /\ \E v, w \in Returned :
       /\ Get(in_flight[v].current_time) < Get(in_flight[w].current_time)
       /\ Get(in_flight[v].nth) > Get(in_flight[w].nth)

\* The calls the requests make on the in-process store.
TaskOps == {"memory_check", "memory_get", "memory_set", "memory_invalidate"}

\* C22: the requests of one process are never inside calls on the in-process
\* list or map at the same time; every call returns without raising, returns
\* what it returns when made in one piece on the state it met, and leaves
\* that state; an admitted call's timestamp is in the list when it returns,
\* and the list never holds more than limit timestamps.
C22_FallbackCallsAreSerial ==
  /\ Cardinality({ t \in Tasks : tasks[t].pc # "idle" }) <= 1
  /\ Len(memory_storage[IdA]) <= TaskLimit
  /\ res.op \in TaskOps =>
       /\ res.raised = "None"
       /\ res.returned = res.serial.returned
       /\ res.left = res.serial.left
  /\ (res.op = "memory_check" /\ Get(res.returned).is_allowed) =>
       \E k \in DOMAIN memory_storage[IdA] :
         memory_storage[IdA][k] = Get(res.current_time)

\* C22 (witness): a request's check is denied on a timestamp that a call of
\* the other request left in the list.
C22_Witness ==
  /\ res.op = "memory_check"
  /\ ~Get(res.returned).is_allowed
  /\ res.others_done
  /\ \A u \in Tasks \ {res.task} : tasks[u].pc = "idle"
  /\ memory_storage[IdA] # <<>>

====
